---- MODULE Spec2Model ----
(***************************************************************************)
(* A model of beatbrain/utils.py: the chunking function spec_to_chunks,    *)
(* the data type detector get_data_type, the six converters' batch loops   *)
(* and the three dispatcher entry points.                                  *)
(*                                                                         *)
(* A 2-D array is modelled as the sequence of its columns (axis 1), each   *)
(* column a sequence of NMels values.  A path is a sequence of names, a    *)
(* name is the sequence of its dot-separated parts ("a.wav" is             *)
(* <<"a", "wav">>, ".wav" is <<"", "wav">>).                                *)
(***************************************************************************)
EXTENDS Integers, Sequences, FiniteSets, TLC

\* ------------------------------------------------------------------ bounds

\* Rows of a spectrogram (n_mels) in the chunking model.
NMels == 1
\* Largest spectrogram width (columns) in the chunking model.
MaxWidth == 5
\* Largest chunk_size.
MaxChunk == 3
\* Largest number of files in the input directory.
MaxFiles == 3
\* Largest skip argument of a first run.
MaxSkip == 2
\* Largest number of frames (audio) or stored arrays (npz) of an input file.
MaxUnits == 3
\* Largest number of reruns after an exception.
MaxReruns == 1

VARIABLES
    \* --- chunking model (spec_to_chunks called on its own)
    cspec,      \* the argument spec: a sequence of columns
    csize,      \* the argument chunk_size
    ctrunc,     \* the argument truncate
    cres,       \* the call's outcome: [raised, value]
    cpc,        \* "idle" (chunking model unused), "call", "done"
    \* --- pipeline model
    inpKind,    \* what inp is on disk: "missing", "file" or "dir"
    inp,        \* the argument inp, a path
    tree,       \* the regular files at or under inp (absolute paths)
    entry,      \* the function called
    raiseExc,   \* get_data_type's raise_exception argument
    chunk_size, \* the chunk_size argument
    truncate,   \* the truncate argument
    units,      \* frames of every audio input / arrays of every npz input
    skip,       \* the skip argument of the current run
    firstSkip,  \* the skip argument of the first run
    pc,         \* "idle", "start", "loop", "returned", "raised"
    dtype,      \* get_data_type's result, "NONE" before it returned
    conv,       \* the converter running, "none" if none was invoked
    invoked,    \* the converters a dispatcher invoked, in order
    paths,      \* the converter's local paths
    i,          \* the loop index (0-based, as enumerate gives it)
    processed,  \* indices whose loop body completed in the current run
    crashAt,    \* index the last exception interrupted, -1 if none
    run,        \* number of the current run (0 = first)
    written,    \* files written: records [run, src, out]
    dirs        \* directories created

chunkVars == <<cspec, csize, ctrunc, cres, cpc>>
pipeVars == <<inpKind, inp, tree, entry, raiseExc, chunk_size, truncate, units,
              skip, firstSkip, pc, dtype, conv, invoked, paths, i, processed,
              crashAt, run, written, dirs>>
vars == <<chunkVars, pipeVars>>

\* ------------------------------------------------------- numpy on columns

\* spec.shape[-1]
Shape1(a) == Len(a)

\* Python's a[:, :stop]: a negative stop counts from the end, and -0 is 0.
SliceStop(a, stop) ==
    LET n == Len(a)
        e == IF stop < 0 THEN (IF n + stop < 0 THEN 0 ELSE n + stop)
             ELSE (IF stop > n THEN n ELSE stop)
    IN SubSeq(a, 1, e)

ZeroColumn == [r \in 1..NMels |-> 0]

\* np.pad(a, ((0, 0), (0, k)), mode='constant'): k zero columns after a.
NpPad(a, k) == a \o [j \in 1..k |-> ZeroColumn]

Returned(v) == [raised |-> FALSE, value |-> v]
Raised == [raised |-> TRUE, value |-> <<>>]

\* np.split(a, sections, axis=1): sections equal parts, an exception when the
\* width is not divisible by sections (sections = 0 included: N % 0).
NpSplit(a, sections) ==
    IF sections = 0 THEN Raised
    ELSE IF Len(a) % sections # 0 THEN Raised
    ELSE LET w == Len(a) \div sections
         IN Returned([k \in 1..sections |-> SubSeq(a, (k - 1) * w + 1, k * w)])

\* np.concatenate(chunks, axis=-1)
RECURSIVE NpConcatenate(_)
NpConcatenate(chunks) ==
    IF chunks = <<>> THEN <<>>
    ELSE Head(chunks) \o NpConcatenate(Tail(chunks))

spec_to_chunks(spec, size, trunc) ==
    IF Shape1(spec) >= size
    THEN LET remainder == Shape1(spec) % size
             cut == IF trunc THEN SliceStop(spec, 0 - remainder)
                    ELSE NpPad(spec, size - remainder)
         IN NpSplit(cut, Shape1(cut) \div size)
    ELSE Returned(<<spec>>)

\* ------------------------------------------------------------------ paths

\* The name '' (the name of Path('.')).
EmptyName == <<"">>

\* Path.name
PathName(p) == IF p = <<>> THEN EmptyName ELSE p[Len(p)]

\* Path.parent (the parent of '.' is '.')
Parent(p) == IF p = <<>> THEN <<>> ELSE SubSeq(p, 1, Len(p) - 1)

\* Path.suffix[1:]: with i the index of the name's last dot, the text after it
\* when 0 < i < len(name) - 1, and '' otherwise (no dot, a leading dot only,
\* a trailing dot).
Suffix(name) ==
    IF /\ Len(name) > 1
       /\ (Len(name) > 2 \/ name[1] # "")
       /\ name[Len(name)] # ""
    THEN name[Len(name)]
    ELSE ""

\* Path.stem: the name without its suffix.
Stem(name) ==
    IF Suffix(name) = "" THEN name ELSE SubSeq(name, 1, Len(name) - 1)

\* p.joinpath(name) for one name; joining '' leaves p as it is.
JoinName(p, name) == IF name = EmptyName THEN p ELSE Append(p, name)

\* p.joinpath(rel) for a relative path rel.
JoinPath(p, rel) == p \o rel

IsPrefix(base, p) ==
    /\ Len(base) <= Len(p)
    /\ SubSeq(p, 1, Len(base)) = base

\* path.relative_to(base), for base a prefix of path (the only use made of it).
RelativeTo(p, base) == SubSeq(p, Len(base) + 1, Len(p))

\* Path.with_suffix('.' + sfx)
WithSuffix(p, sfx) ==
    LET name == PathName(p)
        new == IF Suffix(name) = "" THEN Append(name, sfx)
               ELSE Append(SubSeq(name, 1, Len(name) - 1), sfx)
    IN Append(Parent(p), new)

\* The file np.savez_compressed(p, ...) writes: p, with '.npz' appended unless
\* the file name already ends in '.npz'.
SavezFile(p) ==
    LET name == PathName(p)
    IN IF Len(name) > 1 /\ name[Len(name)] = "npz" THEN p
       ELSE Append(Parent(p), Append(name, "npz"))

\* The directories mkdir(parents=True, exist_ok=True) makes sure exist.
MkdirParents(d) == {SubSeq(d, 1, k) : k \in 1..Len(d)}

\* ------------------------------------------------------------ file system

InDir == <<<<"in">>>>
out_dir == <<<<"out">>>>

\* The candidate files of the input directory, relative to it.
PathPool == {
    <<<<"", "wav">>>>,
    <<<<"a", "flac">>>>,
    <<<<"a", "npz">>>>,
    <<<<"a", "wav">>>>,
    <<<<"b", "tiff">>>>,
    <<<<"sub">>, <<"a", "wav">>>> }

\* natsorted's order on the pool's files and their directories.  No name of
\* the pool holds a digit, so the natural order is the order of the path
\* strings: "in" < "in/.wav" < "in/a.flac" < "in/a.npz" < "in/a.wav"
\* < "in/b.tiff" < "in/sub" < "in/sub/a.wav".
NatOrder == <<
    InDir,
    InDir \o <<<<"", "wav">>>>,
    InDir \o <<<<"a", "flac">>>>,
    InDir \o <<<<"a", "npz">>>>,
    InDir \o <<<<"a", "wav">>>>,
    InDir \o <<<<"b", "tiff">>>>,
    InDir \o <<<<"sub">>>>,
    InDir \o <<<<"sub">>, <<"a", "wav">>>> >>

NatRank(p) == CHOOSE k \in 1..Len(NatOrder) : NatOrder[k] = p

RECURSIVE natsorted(_)
natsorted(S) ==
    IF S = {} THEN <<>>
    ELSE LET m == CHOOSE p \in S : \A q \in S : NatRank(p) <= NatRank(q)
         IN <<m>> \o natsorted(S \ {m})

\* Path.exists, Path.is_file, Path.is_dir of the argument inp.
Exists(kind) == kind # "missing"
IsFile(kind) == kind = "file"
IsDir(kind) == kind = "dir"

\* filter(Path.is_file, path.rglob('*')): the regular files under the directory.
RglobFiles(d, t) == {f \in t : IsPrefix(d, f) /\ f # d}

\* ------------------------------------------------------ data type detection

SUPPORTED_EXTENSIONS ==
    [AUDIO |-> {"wav", "flac", "mp3", "ogg"},
     NUMPY |-> {"npy", "npz"},
     IMAGE |-> {"tiff"}]

\* get_data_type's local files.
TypeFiles(kind, path, t) ==
    IF IsFile(kind) THEN {path}
    ELSE IF IsDir(kind) THEN RglobFiles(path, t)
    ELSE {}

\* get_data_type's local found_types after its loops.
FoundTypes(files) ==
    {d \in DOMAIN SUPPORTED_EXTENSIONS :
        \E f \in files : Suffix(PathName(f)) \in SUPPORTED_EXTENSIONS[d]}

\* Classify with the single-type test written as "at least one": several
\* types found yield one of them.
ClassifyAtLeastOne(found, raise_exception) ==
    IF Cardinality(found) = 0
    THEN (IF raise_exception THEN Raised ELSE Returned("UNKNOWN"))
    ELSE Returned(CHOOSE d \in found : TRUE)

\* The branches on len(found_types).
Classify(found, raise_exception) ==
    IF Cardinality(found) = 0
    THEN (IF raise_exception THEN Raised ELSE Returned("UNKNOWN"))
    ELSE IF Cardinality(found) = 1
    THEN Returned(CHOOSE d \in found : TRUE)
    ELSE (IF raise_exception THEN Raised ELSE Returned("AMBIGUOUS"))

get_data_type(kind, path, t, raise_exception) ==
    Classify(FoundTypes(TypeFiles(kind, path, t)), raise_exception)

\* ------------------------------------------------------------- converters

Converters == {"convert_audio_to_numpy", "convert_image_to_numpy",
               "convert_audio_to_image", "convert_numpy_to_image",
               "convert_numpy_to_audio", "convert_image_to_audio"}
Dispatchers == {"convert_to_numpy", "convert_to_image", "convert_to_audio"}
AudioSource == {"convert_audio_to_numpy", "convert_audio_to_image"}

\* The fmt argument of convert_numpy_to_audio.
fmt == "wav"

\* A converter's paths: an exception when inp does not exist, the sorted files
\* under a directory (convert_image_to_audio: their parent directories), or inp.
ConverterPaths(c, kind, path, t) ==
    IF ~Exists(kind) THEN Raised
    ELSE IF IsDir(kind)
    THEN (IF c = "convert_image_to_audio"
          THEN Returned(natsorted({Parent(f) : f \in RglobFiles(path, t)}))
          ELSE Returned(natsorted(RglobFiles(path, t))))
    ELSE Returned(<<path>>)

\* Skipped with the test written `i <= skip`.
SkippedOffByOne(idx, k) == idx <= k

\* The loop's test `i < skip`.
Skipped(idx, k) == idx < k

\* A normalized spectrogram of the given width (its values do not matter to
\* which files are written).
Spectrogram(w) == [j \in 1..w |-> [r \in 1..NMels |-> 1]]

\* The local output of a loop body.
Output(c, path, base) ==
    LET o == JoinPath(out_dir, RelativeTo(path, base))
    IN IF c = "convert_numpy_to_audio"
       THEN WithSuffix(JoinName(Parent(o), PathName(o)), fmt)
       ELSE JoinName(Parent(o), Stem(PathName(o)))

NumpySource == {"convert_numpy_to_image", "convert_numpy_to_audio"}

\* What a file holds.  Every file holds what the text after its name's last
\* dot says (".wav" holds audio though its Path.suffix is empty).
Holds(path) ==
    LET name == PathName(path)
    IN IF Len(name) > 1 THEN name[Len(name)] ELSE ""

\* The loader of the loop body accepts the file: librosa.load an audio file,
\* `with np.load(path) as npz` an npz archive (an npy file loads as an array,
\* which is no context manager).
Loads(c, path) ==
    IF c \in AudioSource THEN Holds(path) \in SUPPORTED_EXTENSIONS.AUDIO
    ELSE IF c \in NumpySource THEN Holds(path) = "npz"
    ELSE TRUE

\* The number of file system operations a loop body completes before its own
\* code raises, -1 when it raises nothing: the audio converters load and chunk
\* before they create anything, the numpy converters load after their mkdir.
RaisesAfter(c, path, w, size, trunc) ==
    IF c \in AudioSource
    THEN (IF ~Loads(c, path) THEN 0
          ELSE IF spec_to_chunks(Spectrogram(w), size, trunc).raised THEN 0
          ELSE -1)
    ELSE IF c \in NumpySource
    THEN (IF ~Loads(c, path) THEN 1 ELSE -1)
    ELSE -1

\* The number of images a loop body saves.
NImages(c, w, size, trunc) ==
    IF c = "convert_audio_to_image"
    THEN Len(spec_to_chunks(Spectrogram(w), size, trunc).value)
    ELSE w

Mkdir(d) == [op |-> "mkdir", path |-> d]
Write(f) == [op |-> "write", path |-> f]

\* The file system operations of one loop body that raises nothing, in order.
Ops(c, path, base, w, size, trunc) ==
    LET output == Output(c, path, base)
    IN  IF c = "convert_audio_to_numpy"
        THEN <<Mkdir(Parent(output)), Write(SavezFile(output))>>
        ELSE IF c \in {"convert_audio_to_image", "convert_numpy_to_image"}
        THEN <<Mkdir(output)>> \o
             [j \in 1..NImages(c, w, size, trunc) |->
                 Write(Append(output, <<ToString(j - 1), "tiff">>))]
        ELSE IF c = "convert_numpy_to_audio"
        THEN <<Mkdir(Parent(output)), Write(output)>>
        ELSE <<>>

\* The files and directories the first m operations leave.
WrittenBy(ops, m, r, src) ==
    {[run |-> r, src |-> src, out |-> ops[k].path] :
        k \in {k \in 1..m : ops[k].op = "write"}}
MadeBy(ops, m) ==
    UNION {MkdirParents(ops[k].path) : k \in {k \in 1..m : ops[k].op = "mkdir"}}

\* ------------------------------------------------------------- dispatchers

\* Branch with convert_to_numpy's second test on NUMPY instead of IMAGE.
BranchOnTarget(e, d) ==
    IF e = "convert_to_numpy"
    THEN (IF d = "AUDIO" THEN "convert_audio_to_numpy"
          ELSE IF d = "NUMPY" THEN "convert_image_to_numpy" ELSE "none")
    ELSE IF e = "convert_to_image"
    THEN (IF d = "AUDIO" THEN "convert_audio_to_image"
          ELSE IF d = "NUMPY" THEN "convert_numpy_to_image" ELSE "none")
    ELSE (IF d = "NUMPY" THEN "convert_numpy_to_audio"
          ELSE IF d = "IMAGE" THEN "convert_image_to_audio" ELSE "none")

\* The converter a dispatcher's if/elif selects, "none" when no branch matches.
Branch(e, d) ==
    IF e = "convert_to_numpy"
    THEN (IF d = "AUDIO" THEN "convert_audio_to_numpy"
          ELSE IF d = "IMAGE" THEN "convert_image_to_numpy" ELSE "none")
    ELSE IF e = "convert_to_image"
    THEN (IF d = "AUDIO" THEN "convert_audio_to_image"
          ELSE IF d = "NUMPY" THEN "convert_numpy_to_image" ELSE "none")
    ELSE (IF d = "NUMPY" THEN "convert_numpy_to_audio"
          ELSE IF d = "IMAGE" THEN "convert_image_to_audio" ELSE "none")

\* DispatchType with raise_exception left at its default, False.
DispatchTypeNoRaise(kind, path, t) == get_data_type(kind, path, t, FALSE)

\* The dispatchers' call get_data_type(inp, raise_exception=True).
DispatchType(kind, path, t) == get_data_type(kind, path, t, TRUE)

\* ------------------------------------------- spec_to_chunks called on its own

Columns == [1..NMels -> {0, 1}]
Arrays == UNION {[1..w -> Columns] : w \in 1..MaxWidth}

NoResult == Returned(<<>>)

ChunkIdle ==
    /\ cspec = <<>>
    /\ csize = 1
    /\ ctrunc = FALSE
    /\ cres = NoResult
    /\ cpc = "idle"

PipeIdle ==
    /\ inpKind = "missing"
    /\ inp = InDir
    /\ tree = {}
    /\ entry = "none"
    /\ raiseExc = FALSE
    /\ chunk_size = 1
    /\ truncate = FALSE
    /\ units = 1
    /\ skip = 0
    /\ firstSkip = 0
    /\ pc = "idle"
    /\ dtype = "NONE"
    /\ conv = "none"
    /\ invoked = <<>>
    /\ paths = <<>>
    /\ i = 0
    /\ processed = <<>>
    /\ crashAt = -1
    /\ run = 0
    /\ written = {}
    /\ dirs = {}

ChunkInit ==
    /\ cspec \in Arrays
    /\ csize \in 1..MaxChunk
    /\ ctrunc \in BOOLEAN
    /\ cres = NoResult
    /\ cpc = "call"
    /\ PipeIdle

CallSpecToChunks ==
    /\ cpc = "call"
    /\ cres' = spec_to_chunks(cspec, csize, ctrunc)
    /\ cpc' = "done"
    /\ UNCHANGED <<cspec, csize, ctrunc, pipeVars>>

ChunkNext == CallSpecToChunks

SpecChunks == ChunkInit /\ [][ChunkNext]_vars

\* ------------------------------------------------------- the pipeline's runs

Entries == {"get_data_type"} \cup Dispatchers \cup Converters

\* The entries whose converters chunk a spectrogram.
Chunking == AudioSource \cup {"convert_to_numpy", "convert_to_image"}
\* The entries whose converters' writes depend on what an input file holds.
Sized == Chunking \cup {"convert_numpy_to_image"}

Init ==
    /\ ChunkIdle
    /\ \E kind \in {"missing", "file", "dir"} :
        /\ inpKind = kind
        /\ \/ /\ kind = "missing"
              /\ inp = InDir
              /\ tree = {}
           \/ /\ kind = "file"
              /\ \E p \in PathPool :
                    /\ inp = InDir \o p
                    /\ tree = {InDir \o p}
           \/ /\ kind = "dir"
              /\ inp = InDir
              /\ \E S \in SUBSET PathPool :
                    /\ Cardinality(S) <= MaxFiles
                    /\ tree = {InDir \o p : p \in S}
    /\ entry \in Entries
    /\ raiseExc \in (IF entry = "get_data_type" THEN BOOLEAN ELSE {TRUE})
    /\ chunk_size \in (IF entry \in Chunking THEN 1..MaxChunk ELSE {1})
    /\ truncate \in (IF entry \in Chunking THEN BOOLEAN ELSE {FALSE})
    /\ units \in (IF entry \in Sized THEN 1..MaxUnits ELSE {1})
    /\ skip \in (IF entry = "get_data_type" THEN {0} ELSE 0..MaxSkip)
    /\ firstSkip = skip
    /\ pc = "start"
    /\ dtype = "NONE"
    /\ conv = "none"
    /\ invoked = <<>>
    /\ paths = <<>>
    /\ i = 0
    /\ processed = <<>>
    /\ crashAt = -1
    /\ run = 0
    /\ written = {}
    /\ dirs = {}

args == <<inpKind, inp, tree, entry, raiseExc, chunk_size, truncate, units,
          firstSkip>>

\* A converter's code before its loop (convert_image_to_numpy: its whole body).
EnterConverter(c) ==
    /\ conv' = c
    /\ i' = 0
    /\ processed' = <<>>
    /\ IF c = "convert_image_to_numpy"
       THEN /\ paths' = <<>>
            /\ pc' = "returned"
       ELSE LET ps == ConverterPaths(c, inpKind, inp, tree)
            IN  /\ paths' = ps.value
                /\ pc' = IF ps.raised THEN "raised" ELSE "loop"

CallGetDataType ==
    /\ pc = "start"
    /\ entry = "get_data_type"
    /\ LET r == get_data_type(inpKind, inp, tree, raiseExc)
       IN  /\ pc' = IF r.raised THEN "raised" ELSE "returned"
           /\ dtype' = IF r.raised THEN "NONE" ELSE r.value
    /\ UNCHANGED <<chunkVars, args, skip, conv, invoked, paths, i, processed,
                   crashAt, run, written, dirs>>

CallDispatcher ==
    /\ pc = "start"
    /\ entry \in Dispatchers
    /\ LET r == DispatchType(inpKind, inp, tree)
       IN  IF r.raised
           THEN /\ pc' = "raised"
                /\ UNCHANGED <<dtype, conv, invoked, paths, i, processed>>
           ELSE /\ dtype' = r.value
                /\ IF Branch(entry, r.value) = "none"
                   THEN /\ pc' = "returned"
                        /\ UNCHANGED <<conv, invoked, paths, i, processed>>
                   ELSE /\ invoked' = Append(invoked, Branch(entry, r.value))
                        /\ EnterConverter(Branch(entry, r.value))
    /\ UNCHANGED <<chunkVars, args, skip, crashAt, run, written, dirs>>

CallConverter ==
    /\ pc = "start"
    /\ entry \in Converters
    /\ EnterConverter(entry)
    /\ UNCHANGED <<chunkVars, args, skip, dtype, invoked, crashAt, run,
                   written, dirs>>

\* `if i < skip: continue`
LoopSkip ==
    /\ pc = "loop"
    /\ i < Len(paths)
    /\ Skipped(i, skip)
    /\ i' = i + 1
    /\ UNCHANGED <<chunkVars, args, skip, pc, dtype, conv, invoked, paths,
                   processed, crashAt, run, written, dirs>>

\* One loop body that runs to its end.
LoopBody ==
    /\ pc = "loop"
    /\ i < Len(paths)
    /\ ~Skipped(i, skip)
    /\ RaisesAfter(conv, paths[i + 1], units, chunk_size, truncate) = -1
    /\ LET path == paths[i + 1]
           ops == Ops(conv, path, inp, units, chunk_size, truncate)
       IN  /\ written' = written \cup WrittenBy(ops, Len(ops), run, path)
           /\ dirs' = dirs \cup MadeBy(ops, Len(ops))
    /\ processed' = Append(processed, i)
    /\ i' = i + 1
    /\ UNCHANGED <<chunkVars, args, skip, pc, dtype, conv, invoked, paths,
                   crashAt, run>>

\* One loop body an exception ends after its first m file system operations:
\* the body's own at the place RaisesAfter gives, or an outside one (an I/O
\* error, an interrupt) at or before it.
LoopRaise ==
    /\ pc = "loop"
    /\ i < Len(paths)
    /\ ~Skipped(i, skip)
    /\ LET path == paths[i + 1]
           ops == Ops(conv, path, inp, units, chunk_size, truncate)
           own == RaisesAfter(conv, path, units, chunk_size, truncate)
           last == IF own >= 0 THEN own ELSE Len(ops)
       IN  \E m \in 0..last :
            /\ written' = written \cup WrittenBy(ops, m, run, path)
            /\ dirs' = dirs \cup MadeBy(ops, m)
    /\ pc' = "raised"
    /\ crashAt' = i
    /\ UNCHANGED <<chunkVars, args, skip, dtype, conv, invoked, paths, i,
                   processed, run>>

\* The loop is exhausted and the converter returns.
LoopEnd ==
    /\ pc = "loop"
    /\ i = Len(paths)
    /\ pc' = "returned"
    /\ UNCHANGED <<chunkVars, args, skip, dtype, conv, invoked, paths, i,
                   processed, crashAt, run, written, dirs>>

\* After an exception in the loop at index k, the same converter is called
\* again on the unchanged input with skip=k.
Rerun ==
    /\ pc = "raised"
    /\ crashAt >= 0
    /\ run < MaxReruns
    /\ run' = run + 1
    /\ skip' = crashAt
    /\ crashAt' = -1
    /\ EnterConverter(conv)
    /\ UNCHANGED <<chunkVars, args, dtype, invoked, written, dirs>>

Next ==
    \/ CallGetDataType
    \/ CallDispatcher
    \/ CallConverter
    \/ LoopSkip
    \/ LoopBody
    \/ LoopRaise
    \/ LoopEnd
    \/ Rerun

Spec == Init /\ [][Next]_vars

\* ============================================================== properties

\* ceil(a / b) for b >= 1
CeilDiv(a, b) == (a + b - 1) \div b

\* The supported types some regular file at or under inp has an extension of.
TypesPresent ==
    {t \in {"AUDIO", "NUMPY", "IMAGE"} :
        \E f \in tree :
            Suffix(PathName(f)) \in
                (IF t = "AUDIO" THEN {"wav", "flac", "mp3", "ogg"}
                 ELSE IF t = "NUMPY" THEN {"npy", "npz"}
                 ELSE {"tiff"})}

\* A converter's source and target representation, read off its name.
SourceOf(c) ==
    IF c \in {"convert_audio_to_numpy", "convert_audio_to_image"} THEN "AUDIO"
    ELSE IF c \in {"convert_numpy_to_image", "convert_numpy_to_audio"} THEN "NUMPY"
    ELSE "IMAGE"
TargetOf(c) ==
    IF c \in {"convert_audio_to_numpy", "convert_image_to_numpy"} THEN "NUMPY"
    ELSE IF c \in {"convert_audio_to_image", "convert_numpy_to_image"} THEN "IMAGE"
    ELSE "AUDIO"
TargetOfEntry ==
    IF entry = "convert_to_numpy" THEN "NUMPY"
    ELSE IF entry = "convert_to_image" THEN "IMAGE"
    ELSE "AUDIO"

\* The files present after the runs so far.
OutputFiles == {w.out : w \in written}

\* The files one run of the converter over all of paths, no loop body
\* excepting, leaves.
FullRunFiles ==
    UNION {{o.path : o \in {o \in {Ops(conv, paths[k], inp, units, chunk_size,
                                       truncate)[j] :
                                   j \in 1..Len(Ops(conv, paths[k], inp, units,
                                                    chunk_size, truncate))} :
                            o.op = "write"}} :
           k \in 1..Len(paths)}

\* The (0-based) index of a path in paths.
IndexOf(p) == (CHOOSE k \in 1..Len(paths) : paths[k] = p) - 1

\* C1: spec_to_chunks returns, for every width >= 1, chunk_size >= 1 and either
\* truncate, without raising, a non-empty list of arrays of one shape, each
\* exactly chunk_size columns wide.
C1_FixedLengthChunks ==
    cpc = "done" =>
        /\ ~cres.raised
        /\ Len(cres.value) >= 1
        /\ \A k \in 1..Len(cres.value) :
            /\ Len(cres.value[k]) = csize
            /\ \A c \in 1..Len(cres.value[k]) : Len(cres.value[k][c]) = NMels

\* C6: with truncate=True and width W >= chunk_size, spec_to_chunks returns
\* floor(W / chunk_size) chunks whose concatenation is the input's first
\* floor(W / chunk_size) * chunk_size columns, exact multiples included.
C6_TruncateKeepsWholeChunks ==
    (cpc = "done" /\ ctrunc /\ Len(cspec) >= csize) =>
        /\ ~cres.raised
        /\ Len(cres.value) = Len(cspec) \div csize
        /\ NpConcatenate(cres.value) =
               SubSeq(cspec, 1, (Len(cspec) \div csize) * csize)

\* C7: with truncate=False and width W >= chunk_size, spec_to_chunks returns
\* ceil(W / chunk_size) chunks whose concatenation is the input followed by
\* fewer than chunk_size zero columns (none when W is an exact multiple).
C7_PadsLessThanOneChunk ==
    (cpc = "done" /\ ~ctrunc /\ Len(cspec) >= csize) =>
        /\ ~cres.raised
        /\ Len(cres.value) = CeilDiv(Len(cspec), csize)
        /\ \E k \in 0..(csize - 1) :
               NpConcatenate(cres.value) = NpPad(cspec, k)

\* C2: get_data_type returns the single supported type whose extensions occur
\* among the regular files at or under path, UNKNOWN when none occurs and
\* AMBIGUOUS when several do; it raises exactly when raise_exception is set
\* and the number of types found is not 1.
C2_ClassifiesByExtension ==
    (entry = "get_data_type" /\ pc # "start") =>
        /\ (pc = "raised") <=> (raiseExc /\ Cardinality(TypesPresent) # 1)
        /\ pc = "returned" =>
            dtype = (IF Cardinality(TypesPresent) = 1
                     THEN CHOOSE t \in TypesPresent : TRUE
                     ELSE IF TypesPresent = {} THEN "UNKNOWN"
                     ELSE "AMBIGUOUS")

\* C2 witness: a directory holding files of two supported types was
\* classified AMBIGUOUS without an exception.
C2_Witness ==
    /\ entry = "get_data_type"
    /\ pc = "returned"
    /\ inpKind = "dir"
    /\ Cardinality(TypesPresent) = 2
    /\ dtype = "AMBIGUOUS"

C4_EveryPathWritten ==
    (conv \in Converters /\ pc = "returned" /\ run = 0 /\ skip = 0) =>
        \A f \in tree :
            \E w \in written :
                /\ w.src = f
                /\ IsPrefix(out_dir, w.out)
                /\ w.out # out_dir

\* C5: a dispatcher raises, before it invokes a converter or creates a file or
\* directory, when inp does not exist or holds files of no or of several
\* supported types.
C5_RaisesBeforeAnyEffect ==
    (/\ entry \in Dispatchers
     /\ pc # "start"
     /\ (inpKind = "missing" \/ Cardinality(TypesPresent) # 1)) =>
        /\ pc = "raised"
        /\ conv = "none"
        /\ invoked = <<>>
        /\ written = {}
        /\ dirs = {}

\* C5 witness: a dispatcher called on a directory of two supported types raised.
C5_Witness ==
    /\ entry \in Dispatchers
    /\ pc = "raised"
    /\ inpKind = "dir"
    /\ Cardinality(TypesPresent) = 2
    /\ invoked = <<>>

\* C8: every file written by the four implemented converters lies inside
\* out_dir, for a directory inp and for a single-file inp, and mirrors the
\* input's path relative to a directory inp, extension removed or replaced.
C8_OutputsMirrorInsideOutDir ==
    \A w \in written :
        LET rel == RelativeTo(w.src, inp)
            images == conv \in {"convert_audio_to_image", "convert_numpy_to_image"}
            dir == IF images THEN Parent(Parent(w.out)) ELSE Parent(w.out)
            name == IF images THEN PathName(Parent(w.out)) ELSE PathName(w.out)
        IN  /\ IsPrefix(out_dir, w.out)
            /\ w.out # out_dir
            /\ inpKind = "dir" =>
                /\ dir = JoinPath(out_dir, Parent(rel))
                /\ Stem(name) = Stem(PathName(w.src))

\* C9: within one converter run, distinct processed input paths are written to
\* distinct output paths.
C9_DistinctOutputs ==
    \A w1 \in written : \A w2 \in written :
        (w1.run = w2.run /\ w1.src # w2.src) => w1.out # w2.out

\* C10: on a detected type a dispatcher has no branch for, it invokes no
\* converter, raises nothing, writes nothing and returns; on any other detected
\* type it invokes exactly one converter, the one from that type to the
\* dispatcher's target.
C10_DispatchByType ==
    (entry \in Dispatchers /\ pc # "start" /\ inpKind # "missing"
        /\ Cardinality(TypesPresent) = 1) =>
        LET d == CHOOSE t \in TypesPresent : TRUE
        IN  IF d = TargetOfEntry
            THEN /\ pc = "returned"
                 /\ invoked = <<>>
                 /\ conv = "none"
                 /\ written = {}
                 /\ dirs = {}
            ELSE /\ Len(invoked) = 1
                 /\ conv = invoked[1]
                 /\ SourceOf(invoked[1]) = d
                 /\ TargetOf(invoked[1]) = TargetOfEntry

\* C10 witness: convert_to_numpy on NUMPY input returned with nothing invoked.
C10_Witness ==
    /\ entry = "convert_to_numpy"
    /\ pc = "returned"
    /\ dtype = "NUMPY"
    /\ invoked = <<>>

====
